---- MODULE Spec2Model ----
(***************************************************************************)
(* LotterySimulator (src/lottery_simulator.py): ticket generation, the     *)
(* drawing, the prize rules and the aggregation, together with the         *)
(* process-global pseudo-random generator of Python's `random` module that *)
(* every simulator instance draws from.                                    *)
(***************************************************************************)
EXTENDS Integers, Sequences, FiniteSets, TLC

(***************************************************************************)
(* Class constants (lottery_simulator.py lines 41-55).  Money is counted   *)
(* in units of 100 yen: every amount of the program is a multiple of 100,  *)
(* Python integers do not overflow, and TLC's are 32 bits wide.            *)
(***************************************************************************)
TOTAL_GROUPS == 200
NUMBERS_PER_GROUP == 100000
TICKETS_PER_SET == 10
PRICE_PER_SET == 3000 \div 100
MAX_SETS == 33
PRIZE_1ST == 700000000 \div 100
PRIZE_1ST_ADJACENT == 150000000 \div 100
PRIZE_2ND == 10000000 \div 100
PRIZE_3RD == 1000000 \div 100
PRIZE_4TH == 50000 \div 100
PRIZE_5TH == 10000 \div 100
PRIZE_6TH == 3000 \div 100
PRIZE_7TH == 300 \div 100

(***************************************************************************)
(* Bounds of the model.                                                    *)
(*   Period   : the generator's stream is a cycle of Period raw words      *)
(*   MaxCalls : calls logged per seeded instance (SpecDet)                 *)
(***************************************************************************)
Period == 2
MaxCalls == 2

Instances == {"a", "b"}
Seeds == {42, 123}

\* Python's None, and a present optional value
None == <<>>
Some(x) == <<x>>
Val(o) == o[1]

VARIABLES
    rng,              \* state of the module-global generator of `random`
    alive,            \* the constructed simulator instances
    seed,             \* per instance: the seed argument of __init__
    renban_tickets,   \* per instance: self.renban_tickets
    bara_tickets,     \* per instance: self.bara_tickets
    winning_number,   \* per instance: self.winning_number (None or a Lottery)
    bonus_digit,      \* per instance: self.bonus_digit (None or a digit)
    ret,              \* the last call: method, instance, arguments, outcome
    calls             \* per seeded instance: the calls made so far (SpecDet)

vars == <<rng, alive, seed, renban_tickets, bara_tickets, winning_number,
          bonus_digit, ret, calls>>

fields == <<renban_tickets, bara_tickets, winning_number, bonus_digit>>

Lottery(g, n) == [group |-> g, number |-> n]

(***************************************************************************)
(* The generator.  Its state is a cyclic stream of raw words and a cursor; *)
(* each library call consumes one word and its outcome is a function of    *)
(* that word.  random.seed(s) sets the state to a function of s.           *)
(***************************************************************************)
\* the raw words of the stream
RawWords == {0, 1, 2}

NumWords == Cardinality(RawWords)

Tapes == [1 .. Period -> RawWords]

RECURSIVE Pow(_, _)
Pow(b, e) == IF e = 0 THEN 1 ELSE b * Pow(b, e - 1)

\* random.seed(seed): the stream is determined by the seed
SeedState(s) ==
    [tape |-> [k \in 1 .. Period |-> (s \div Pow(NumWords, k - 1)) % NumWords],
     pos |-> 1]

\* the k-th upcoming raw word (k = 0 is the next one)
W(g, k) == g.tape[((g.pos - 1 + k) % Len(g.tape)) + 1]

\* the generator after n library calls
Skip(g, n) == [g EXCEPT !.pos = ((g.pos - 1 + n) % Len(g.tape)) + 1]

\* random.randint(lo, hi): lo, hi, or one of the interior points `mids`
randint(lo, hi, mids, w) ==
    LET inner == SelectSeq(mids, LAMBDA m : lo <= m /\ m <= hi)
        s == <<lo, hi>> \o inner
    IN  s[(w % Len(s)) + 1]

\* interior points drawn at each call site
GroupMids == <<100>>
StartMids == <<2340>>
ValueMids == <<834>>
WinMids == <<12345>>
DigitMids == <<7>>

\* random.sample(population, k): k distinct members of population 1..n,
\* here an arithmetic progression whose stride keeps them distinct
SampleWindows == << <<0, 1>>, <<199, 199>>, <<99, 7>>, <<49, 3>> >>

sample(n, k, w) ==
    LET win == SampleWindows[(w % Len(SampleWindows)) + 1]
    IN  [i \in 1 .. k |-> ((win[1] + (i - 1) * win[2]) % n) + 1]

\* random.shuffle(x): a permutation of x
Perm(w, n, i) ==
    CASE w % 4 = 0 -> i
      [] w % 4 = 1 -> n + 1 - i
      [] w % 4 = 2 -> ((i + 2) % n) + 1
      [] OTHER -> IF i % 2 = 1 THEN i + 1 ELSE i - 1

shuffle(x, w) == [i \in 1 .. Len(x) |-> x[Perm(w, Len(x), i)]]

(***************************************************************************)
(* Ticket generation (generate_renban_set, generate_bara_set).  Each       *)
(* returns the set and the generator as the calls left it.                 *)
(***************************************************************************)
\* faulty variant: the start number drawn from the whole range of numbers
generate_renban_set_late(g) ==
    LET group == randint(1, TOTAL_GROUPS, GroupMids, W(g, 0))
        start_number == randint(0, NUMBERS_PER_GROUP - 1, StartMids, W(g, 1))
    IN  [tickets |-> [i \in 1 .. TICKETS_PER_SET |->
                         Lottery(group, start_number + (i - 1))],
         rng |-> Skip(g, 2)]

generate_renban_set(g) ==
    LET group == randint(1, TOTAL_GROUPS, GroupMids, W(g, 0))
        start_number ==
            randint(0, NUMBERS_PER_GROUP - TICKETS_PER_SET, StartMids, W(g, 1))
    IN  [tickets |-> [i \in 1 .. TICKETS_PER_SET |->
                         Lottery(group, start_number + (i - 1))],
         rng |-> Skip(g, 2)]

\* faulty variant: every ticket of the set gets the first selected group
generate_bara_set_one_group(g) ==
    LET selected_groups == sample(TOTAL_GROUPS, TICKETS_PER_SET, W(g, 0))
        tickets == [i \in 1 .. TICKETS_PER_SET |->
                       Lottery(selected_groups[1],
                               randint(0, 9999, ValueMids, W(g, i)) * 10 + (i - 1))]
    IN  [tickets |-> shuffle(tickets, W(g, TICKETS_PER_SET + 1)),
         rng |-> Skip(g, TICKETS_PER_SET + 2)]

generate_bara_set(g) ==
    LET selected_groups == sample(TOTAL_GROUPS, TICKETS_PER_SET, W(g, 0))
        \* enumerate() counts from 0: slot i of 1..10 has last_digit i - 1
        tickets == [i \in 1 .. TICKETS_PER_SET |->
                       Lottery(selected_groups[i],
                               randint(0, 9999, ValueMids, W(g, i)) * 10 + (i - 1))]
    IN  [tickets |-> shuffle(tickets, W(g, TICKETS_PER_SET + 1)),
         rng |-> Skip(g, TICKETS_PER_SET + 2)]

\* for _ in range(renban_sets): self.renban_tickets.extend(...)
RECURSIVE renban_loop(_, _, _)
renban_loop(n, acc, g) ==
    IF n <= 0 THEN [tickets |-> acc, rng |-> g]
    ELSE LET s == generate_renban_set(g)
         IN  renban_loop(n - 1, acc \o s.tickets, s.rng)

\* for _ in range(bara_sets): self.bara_tickets.extend(...)
RECURSIVE bara_loop(_, _, _)
bara_loop(n, acc, g) ==
    IF n <= 0 THEN [tickets |-> acc, rng |-> g]
    ELSE LET s == generate_bara_set(g)
         IN  bara_loop(n - 1, acc \o s.tickets, s.rng)

(***************************************************************************)
(* Prize rules (check_prize).  Tier names: "1st" is 1等, "1st_adjacent" is *)
(* 1等前後賞, "2nd".."7th" are 2等..7等 and "none" is なし.                *)
(***************************************************************************)
Prize(name, amount) == [name |-> name, amount |-> amount]

Tiers == {"1st", "1st_adjacent", "2nd", "3rd", "4th", "5th", "6th", "7th"}

\* the rules of check_prize once a drawing exists (lines 170-209)
prize_rules(ticket, win, bonus) ==
    IF ticket = win THEN Prize("1st", PRIZE_1ST)
    ELSE IF ticket.group = win.group
            /\ \/ ticket.number = win.number - 1 /\ win.number > 0
               \/ /\ ticket.number # win.number - 1
                  /\ ticket.number = win.number + 1
                  /\ win.number < NUMBERS_PER_GROUP - 1
         THEN Prize("1st_adjacent", PRIZE_1ST_ADJACENT)
    ELSE IF ticket.group = win.group
            /\ ticket.number % 10000 = win.number % 10000
         THEN Prize("2nd", PRIZE_2ND)
    ELSE IF ticket.number % 10000 = win.number % 10000
         THEN Prize("3rd", PRIZE_3RD)
    ELSE IF ticket.number % 1000 = win.number % 1000
         THEN Prize("4th", PRIZE_4TH)
    ELSE IF ticket.number % 100 = win.number % 100
         THEN Prize("5th", PRIZE_5TH)
    ELSE IF ticket.number % 10 = win.number % 10
         THEN Prize("6th", PRIZE_6TH)
    ELSE IF Some(ticket.number % 10) = bonus
         THEN Prize("7th", PRIZE_7TH)
    ELSE Prize("none", 0)

\* faulty variant: the adjacent prize without the checks against 0 and 99999
check_prize_wrapping(i, ticket) ==
    IF winning_number[i] = None THEN Prize("none", 0)
    ELSE LET win == Val(winning_number[i])
         IN  IF /\ ticket.group = win.group
                /\ ticket.number \in {win.number - 1, win.number + 1}
             THEN Prize("1st_adjacent", PRIZE_1ST_ADJACENT)
             ELSE prize_rules(ticket, win, bonus_digit[i])

\* faulty variant: no test for a missing drawing, so that the first read of
\* self.winning_number.group raises
check_prize_unguarded(i, ticket) ==
    IF winning_number[i] = None THEN Prize("AttributeError", 0)
    ELSE prize_rules(ticket, Val(winning_number[i]), bonus_digit[i])

\* faulty variant: the 6th prize compares the last digit with the bonus digit
check_prize_no_6th(i, ticket) ==
    IF winning_number[i] = None THEN Prize("none", 0)
    ELSE LET p == prize_rules(ticket, Val(winning_number[i]), bonus_digit[i])
         IN  IF p.name # "6th" THEN p
             ELSE IF Some(ticket.number % 10) = bonus_digit[i]
                  THEN Prize("7th", PRIZE_7TH)
                  ELSE Prize("none", 0)

check_prize(i, ticket) ==
    IF winning_number[i] = None THEN Prize("none", 0)
    ELSE prize_rules(ticket, Val(winning_number[i]), bonus_digit[i])

(***************************************************************************)
(* Aggregation (check_all_prizes).                                         *)
(***************************************************************************)
\* The for-loop over a ticket list, from position k to position hi.
RECURSIVE tally(_, _, _, _, _)
tally(i, tickets, k, hi, acc) ==
    IF k > hi THEN acc
    ELSE LET p == check_prize(i, tickets[k])
         IN  IF p.name # "none"
             THEN tally(i, tickets, k + 1, hi,
                        [results |-> [acc.results EXCEPT ![p.name] = @ + 1],
                         total |-> acc.total + p.amount])
             ELSE tally(i, tickets, k + 1, hi, acc)

\* The same loop over the whole list, ten tickets at a time.  The order of the
\* tickets is the loop's; the running total, which never decreases, is read
\* after every ten tickets so that TLC evaluates it there and the nesting of
\* unevaluated totals stays shallow.
RECURSIVE tally_all(_, _, _, _)
tally_all(i, tickets, k, acc) ==
    IF k > Len(tickets) THEN acc
    ELSE LET hi == IF k + TICKETS_PER_SET - 1 > Len(tickets)
                   THEN Len(tickets) ELSE k + TICKETS_PER_SET - 1
             done == tally(i, tickets, k, hi, acc)
         IN  IF done.total >= acc.total
             THEN tally_all(i, tickets, hi + 1, done)
             ELSE done

\* faulty variant: the profit computed as cost minus prize
check_all_prizes_negated(i) ==
    LET zero == [results |-> [t \in Tiers |-> 0], total |-> 0]
        renban == tally_all(i, renban_tickets[i], 1, zero)
        bara == tally_all(i, bara_tickets[i], 1, zero)
        renban_sets == Len(renban_tickets[i]) \div TICKETS_PER_SET
        bara_sets == Len(bara_tickets[i]) \div TICKETS_PER_SET
        total_cost == (renban_sets + bara_sets) * PRICE_PER_SET
        total_prize == renban.total + bara.total
    IN  [renban_results |-> renban.results,
         renban_total_prize |-> renban.total,
         bara_results |-> bara.results,
         bara_total_prize |-> bara.total,
         renban_sets |-> renban_sets,
         bara_sets |-> bara_sets,
         total_sets |-> renban_sets + bara_sets,
         total_cost |-> total_cost,
         total_prize |-> total_prize,
         profit |-> total_cost - total_prize]

check_all_prizes(i) ==
    LET zero == [results |-> [t \in Tiers |-> 0], total |-> 0]
        renban == tally_all(i, renban_tickets[i], 1, zero)
        bara == tally_all(i, bara_tickets[i], 1, zero)
        renban_sets == Len(renban_tickets[i]) \div TICKETS_PER_SET
        bara_sets == Len(bara_tickets[i]) \div TICKETS_PER_SET
        total_cost == (renban_sets + bara_sets) * PRICE_PER_SET
        total_prize == renban.total + bara.total
    IN  [renban_results |-> renban.results,
         renban_total_prize |-> renban.total,
         bara_results |-> bara.results,
         bara_total_prize |-> bara.total,
         renban_sets |-> renban_sets,
         bara_sets |-> bara_sets,
         total_sets |-> renban_sets + bara_sets,
         total_cost |-> total_cost,
         total_prize |-> total_prize,
         profit |-> total_prize - total_cost]

(***************************************************************************)
(* The operations, one action per method call.                             *)
(***************************************************************************)
Call(op, i, args, raised, value) ==
    [op |-> op, inst |-> i, args |-> args, raised |-> raised, value |-> value]

\* LotterySimulator(seed)
Construct(i, s) ==
    /\ i \notin alive
    /\ alive' = alive \cup {i}
    /\ seed' = [seed EXCEPT ![i] = s]
    /\ rng' = IF s # None THEN SeedState(Val(s)) ELSE rng
    /\ renban_tickets' = [renban_tickets EXCEPT ![i] = <<>>]
    /\ bara_tickets' = [bara_tickets EXCEPT ![i] = <<>>]
    /\ winning_number' = [winning_number EXCEPT ![i] = None]
    /\ bonus_digit' = [bonus_digit EXCEPT ![i] = None]
    /\ ret' = Call("__init__", i, <<s>>, FALSE, None)

\* sim.generate_renban_set()
GenerateRenbanSet(i) ==
    /\ i \in alive
    /\ LET s == generate_renban_set(rng)
       IN  /\ rng' = s.rng
           /\ ret' = Call("generate_renban_set", i, <<>>, FALSE, s.tickets)
    /\ UNCHANGED <<alive, seed, fields>>

\* sim.generate_bara_set()
GenerateBaraSet(i) ==
    /\ i \in alive
    /\ LET s == generate_bara_set(rng)
       IN  /\ rng' = s.rng
           /\ ret' = Call("generate_bara_set", i, <<>>, FALSE, s.tickets)
    /\ UNCHANGED <<alive, seed, fields>>

\* faulty variant: self.renban_tickets is reset before the total is checked
PurchaseTickets_reset_first(i, renban_sets, bara_sets) ==
    /\ i \in alive
    /\ IF renban_sets < 0 \/ bara_sets < 0
       THEN /\ ret' = Call("purchase_tickets", i, <<renban_sets, bara_sets>>,
                           TRUE, "ValueError")
            /\ UNCHANGED <<rng, fields>>
       ELSE IF renban_sets + bara_sets > MAX_SETS
       THEN /\ ret' = Call("purchase_tickets", i, <<renban_sets, bara_sets>>,
                           TRUE, "ValueError")
            /\ renban_tickets' = [renban_tickets EXCEPT ![i] = <<>>]
            /\ UNCHANGED <<rng, bara_tickets, winning_number, bonus_digit>>
       ELSE LET r == renban_loop(renban_sets, <<>>, rng)
                b == bara_loop(bara_sets, <<>>, r.rng)
            IN  /\ renban_tickets' = [renban_tickets EXCEPT ![i] = r.tickets]
                /\ bara_tickets' = [bara_tickets EXCEPT ![i] = b.tickets]
                /\ rng' = b.rng
                /\ ret' = Call("purchase_tickets", i,
                               <<renban_sets, bara_sets>>, FALSE, None)
                /\ UNCHANGED <<winning_number, bonus_digit>>
    /\ UNCHANGED <<alive, seed>>

\* faulty variant: the new sets are appended to the tickets already held
PurchaseTickets_extending(i, renban_sets, bara_sets) ==
    /\ i \in alive
    /\ IF renban_sets < 0 \/ bara_sets < 0
       THEN /\ ret' = Call("purchase_tickets", i, <<renban_sets, bara_sets>>,
                           TRUE, "ValueError")
            /\ UNCHANGED <<rng, fields>>
       ELSE IF renban_sets + bara_sets > MAX_SETS
       THEN /\ ret' = Call("purchase_tickets", i, <<renban_sets, bara_sets>>,
                           TRUE, "ValueError")
            /\ UNCHANGED <<rng, fields>>
       ELSE LET r == renban_loop(renban_sets, renban_tickets[i], rng)
                b == bara_loop(bara_sets, bara_tickets[i], r.rng)
            IN  /\ renban_tickets' = [renban_tickets EXCEPT ![i] = r.tickets]
                /\ bara_tickets' = [bara_tickets EXCEPT ![i] = b.tickets]
                /\ rng' = b.rng
                /\ ret' = Call("purchase_tickets", i,
                               <<renban_sets, bara_sets>>, FALSE, None)
                /\ UNCHANGED <<winning_number, bonus_digit>>
    /\ UNCHANGED <<alive, seed>>

\* sim.purchase_tickets(renban_sets, bara_sets)
PurchaseTickets(i, renban_sets, bara_sets) ==
    /\ i \in alive
    /\ IF renban_sets < 0 \/ bara_sets < 0
       THEN /\ ret' = Call("purchase_tickets", i, <<renban_sets, bara_sets>>,
                           TRUE, "ValueError")
            /\ UNCHANGED <<rng, fields>>
       ELSE IF renban_sets + bara_sets > MAX_SETS
       THEN /\ ret' = Call("purchase_tickets", i, <<renban_sets, bara_sets>>,
                           TRUE, "ValueError")
            /\ UNCHANGED <<rng, fields>>
       ELSE LET r == renban_loop(renban_sets, <<>>, rng)
                b == bara_loop(bara_sets, <<>>, r.rng)
            IN  /\ renban_tickets' = [renban_tickets EXCEPT ![i] = r.tickets]
                /\ bara_tickets' = [bara_tickets EXCEPT ![i] = b.tickets]
                /\ rng' = b.rng
                /\ ret' = Call("purchase_tickets", i,
                               <<renban_sets, bara_sets>>, FALSE, None)
                /\ UNCHANGED <<winning_number, bonus_digit>>
    /\ UNCHANGED <<alive, seed>>

\* sim.draw_winning_number()
DrawWinningNumber(i) ==
    /\ i \in alive
    /\ LET winning_group == randint(1, TOTAL_GROUPS, GroupMids, W(rng, 0))
           number == randint(0, NUMBERS_PER_GROUP - 1, WinMids, W(rng, 1))
       IN  /\ winning_number' =
                 [winning_number EXCEPT ![i] = Some(Lottery(winning_group, number))]
           /\ bonus_digit' =
                 [bonus_digit EXCEPT ![i] = Some(randint(0, 9, DigitMids, W(rng, 2)))]
    /\ rng' = Skip(rng, 3)
    /\ ret' = Call("draw_winning_number", i, <<>>, FALSE, None)
    /\ UNCHANGED <<alive, seed, renban_tickets, bara_tickets>>

\* sim.check_prize(ticket)
CheckPrize(i, ticket) ==
    /\ i \in alive
    /\ ret' = Call("check_prize", i, <<ticket>>, FALSE, check_prize(i, ticket))
    /\ UNCHANGED <<rng, alive, seed, fields>>

\* sim.check_all_prizes()
CheckAllPrizes(i) ==
    /\ i \in alive
    /\ ret' = Call("check_all_prizes", i, <<>>, FALSE, check_all_prizes(i))
    /\ UNCHANGED <<rng, alive, seed, fields>>

(***************************************************************************)
(* Spec: one unseeded simulator, as main() builds it, and every method.    *)
(***************************************************************************)
\* the generator of a fresh process: seeded by the system, any stream
InitProcess ==
    /\ rng \in [tape : Tapes, pos : {1}]
    /\ calls = [i \in Instances |-> <<>>]

\* simulator = LotterySimulator()
Init ==
    /\ InitProcess
    /\ alive = {"a"}
    /\ seed = [i \in Instances |-> None]
    /\ renban_tickets = [i \in Instances |-> <<>>]
    /\ bara_tickets = [i \in Instances |-> <<>>]
    /\ winning_number = [i \in Instances |-> None]
    /\ bonus_digit = [i \in Instances |-> None]
    /\ ret = Call("__init__", "a", <<None>>, FALSE, None)

\* arguments of purchase_tickets
SetCounts ==
    {<<-1, 0>>, <<0, 0>>, <<1, 0>>, <<0, 1>>, <<1, 1>>, <<2, 1>>, <<0, 34>>}

\* arguments of check_prize
SomeTickets == {Lottery(100, 12345), Lottery(50, 97)}

Purchase == \E c \in SetCounts : PurchaseTickets("a", c[1], c[2]) /\ UNCHANGED calls
Draw == DrawWinningNumber("a") /\ UNCHANGED calls
Check == \E t \in SomeTickets : CheckPrize("a", t) /\ UNCHANGED calls
CheckAll == CheckAllPrizes("a") /\ UNCHANGED calls
GenRenban == GenerateRenbanSet("a") /\ UNCHANGED calls
GenBara == GenerateBaraSet("a") /\ UNCHANGED calls

Next == Purchase \/ Draw \/ Check \/ CheckAll \/ GenRenban \/ GenBara

Spec == Init /\ [][Next]_vars

(***************************************************************************)
(* SpecMax: purchases up to and beyond MAX_SETS, and drawings.             *)
(***************************************************************************)
MaxCounts ==
    {<<-1, 0>>, <<0, -1>>, <<-1, -1>>, <<-1, 34>>, <<0, 0>>, <<1, 0>>, <<0, 1>>,
     <<20, 13>>, <<20, 14>>, <<0, 34>>}

PurchaseMax ==
    \E c \in MaxCounts : PurchaseTickets("a", c[1], c[2]) /\ UNCHANGED calls

NextMax == PurchaseMax \/ Draw

SpecMax == Init /\ [][NextMax]_vars

(***************************************************************************)
(* SpecPrize: drawings, and check_prize on tickets around each of them.    *)
(***************************************************************************)
PrizeTickets ==
    {Lottery(g, n) : g \in {1, 50, 100, 200},
                     n \in {-1, 0, 1, 5, 9, 10, 15, 45, 97, 100, 123, 345, 1000,
                            2345, 9999, 10000, 12344, 12345, 12346, 12355,
                            22345, 89999, 90000, 99989, 99998, 99999, 100000}}

CheckAny == \E t \in PrizeTickets : CheckPrize("a", t) /\ UNCHANGED calls

NextPrize == Draw \/ CheckAny

SpecPrize == Init /\ [][NextPrize]_vars

(***************************************************************************)
(* SpecDet: two simulators built with seeds in one process, every call     *)
(* logged per instance.                                                    *)
(***************************************************************************)
InitDet ==
    /\ InitProcess
    /\ alive = {}
    /\ seed = [i \in Instances |-> None]
    /\ renban_tickets = [i \in Instances |-> <<>>]
    /\ bara_tickets = [i \in Instances |-> <<>>]
    /\ winning_number = [i \in Instances |-> None]
    /\ bonus_digit = [i \in Instances |-> None]
    /\ ret = Call("start", "a", <<>>, FALSE, None)

Logged(i, call) ==
    /\ Len(calls[i]) < MaxCalls
    /\ calls' = [calls EXCEPT ![i] = Append(@, call)]

DetCounts == {<<1, 0>>, <<0, 1>>, <<-1, 0>>}

DetConstruct ==
    \E i \in Instances, s \in Seeds : Construct(i, Some(s)) /\ UNCHANGED calls

DetPurchase ==
    \E i \in Instances, c \in DetCounts :
        PurchaseTickets(i, c[1], c[2]) /\ Logged(i, <<"purchase_tickets", c[1], c[2]>>)

DetDraw == \E i \in Instances : DrawWinningNumber(i) /\ Logged(i, <<"draw_winning_number">>)

DetCheckAll == \E i \in Instances : CheckAllPrizes(i) /\ Logged(i, <<"check_all_prizes">>)

NextDet == DetConstruct \/ DetPurchase \/ DetDraw \/ DetCheckAll

SpecDet == InitDet /\ [][NextDet]_vars

(***************************************************************************)
(* The prize table of the specification, as a list of rules in order.      *)
(***************************************************************************)
Rule(k, t, w, b) ==
    CASE k = 1 -> t.group = w.group /\ t.number = w.number
      [] k = 2 -> /\ t.group = w.group
                  /\ \/ t.number = w.number - 1 /\ w.number > 0
                     \/ t.number = w.number + 1 /\ w.number < 99999
      [] k = 3 -> t.group = w.group /\ t.number % 10000 = w.number % 10000
      [] k = 4 -> t.number % 10000 = w.number % 10000
      [] k = 5 -> t.number % 1000 = w.number % 1000
      [] k = 6 -> t.number % 100 = w.number % 100
      [] k = 7 -> t.number % 10 = w.number % 10
      [] OTHER -> t.number % 10 = b

RuleTier == <<"1st", "1st_adjacent", "2nd", "3rd", "4th", "5th", "6th", "7th">>

\* payouts in yen
RulePayout ==
    <<700000000, 150000000, 10000000, 1000000, 50000, 10000, 3000, 300>>

Matching(t, w, b) == {k \in 1 .. 8 : Rule(k, t, w, b)}

Least(S) == CHOOSE k \in S : \A j \in S : k <= j

\* the instance of Spec, SpecMax and SpecPrize
self == "a"

\* C1: with a drawing present, check_prize returns the tier and the payout of
\* the first rule of the table that matches, and none/0 when no rule does; a
\* ticket matching the 2nd and the 3rd rule is a 2nd; adjacency does not wrap
\* at 0 or at 99999.
C1_FirstMatchingRule ==
    (ret.op = "check_prize" /\ winning_number[self] # None) =>
        LET t == ret.args[1]
            w == Val(winning_number[self])
            b == Val(bonus_digit[self])
            m == Matching(t, w, b)
            got == ret.value
        IN  /\ m = {} => got.name = "none" /\ got.amount = 0
            /\ m # {} => /\ got.name = RuleTier[Least(m)]
                         /\ got.amount * 100 = RulePayout[Least(m)]
            /\ (3 \in m /\ 4 \in m /\ 1 \notin m /\ 2 \notin m) => got.name = "2nd"
            /\ (w.number = 0 /\ t.number \in {99999, -1}) => got.name # "1st_adjacent"
            /\ (w.number = 0 /\ t.number = 1 /\ t.group = w.group)
                   => got.name = "1st_adjacent"
            /\ (w.number = 99999 /\ t.number = 99998 /\ t.group = w.group)
                   => got.name = "1st_adjacent"
            /\ (w.number = 99999 /\ t.number \in {100000, 0})
                   => got.name # "1st_adjacent"

\* a ticket of the winning group one below the winning number 0, which is
\* not adjacent and falls through to the lower rules
C1_Witness ==
    /\ ret.op = "check_prize"
    /\ winning_number[self] # None
    /\ Val(winning_number[self]).number = 0
    /\ ret.args[1] = Lottery(Val(winning_number[self]).group, -1)
    /\ ret.value.name \in {"7th", "none"}

(***************************************************************************)
(* Helpers of the properties below.                                        *)
(***************************************************************************)
\* the k-th set of ten of a ticket list
Block(tickets, k) ==
    SubSeq(tickets, (k - 1) * TICKETS_PER_SET + 1, k * TICKETS_PER_SET)

Blocks(tickets) ==
    {Block(tickets, k) : k \in 1 .. (Len(tickets) \div TICKETS_PER_SET)}

\* a sequence of numbers in ascending order
RECURSIVE SortAsc(_)
SortAsc(s) ==
    IF s = <<>> THEN <<>>
    ELSE LET k == CHOOSE j \in 1 .. Len(s) : \A l \in 1 .. Len(s) : s[j] <= s[l]
         IN  <<s[k]>> \o SortAsc(SubSeq(s, 1, k - 1) \o SubSeq(s, k + 1, Len(s)))

Numbers(set) == [k \in 1 .. Len(set) |-> set[k].number]

\* the sum of the payouts check_prize gives the tickets from position k on
RECURSIVE SumPayout(_, _, _)
SumPayout(i, tickets, k) ==
    IF k > Len(tickets) THEN 0
    ELSE check_prize(i, tickets[k]).amount
         + (IF k + 1 > Len(tickets) THEN 0 ELSE SumPayout(i, tickets, k + 1))

CountTier(i, tickets, t) ==
    Cardinality({k \in 1 .. Len(tickets) : check_prize(i, tickets[k]).name = t})

\* ten tickets of one group, numbered consecutively from a start in range
IsRenbanSet(set) ==
    /\ Len(set) = 10
    /\ \A k \in 1 .. 10 : set[k].group = set[1].group
    /\ set[1].number \in 0 .. 99990
    /\ \A k \in 1 .. 10 : set[k].number = set[1].number + (k - 1)
    /\ set[10].number <= 99999

IsBaraSet(set) ==
    /\ Len(set) = 10
    /\ Cardinality({set[k].group : k \in 1 .. 10}) = 10
    /\ \A k \in 1 .. 10 : set[k].group \in 1 .. 200
    /\ \A d \in 0 .. 9 : Cardinality({k \in 1 .. 10 : set[k].number % 10 = d}) = 1

\* C8: a scattered set is ten tickets of ten distinct groups of [1,200] whose
\* last digits are 0..9, each once, in whatever order.
C8_BaraSet ==
    /\ ret.op = "generate_bara_set" => IsBaraSet(ret.value)
    /\ \A set \in Blocks(bara_tickets[self]) : IsBaraSet(set)

\* a set the shuffle reordered: its first ticket does not end in 0
C8_Witness ==
    /\ ret.op = "generate_bara_set"
    /\ ret.value[1].number % 10 # 0

\* some neighbour in the sorted numbers is not the successor
NotConsecutive(set) ==
    LET sorted == SortAsc(Numbers(set))
    IN  \E k \in 2 .. Len(sorted) : sorted[k] # sorted[k - 1] + 1

\* C3: the numbers of a scattered set, sorted ascending, are never ten
\* consecutive numbers.
C3_BaraNotConsecutive ==
    ret.op = "generate_bara_set" => NotConsecutive(ret.value)

\* a ticket of an existing group and number
InRange(t) == t.group \in 1 .. 200 /\ t.number \in 0 .. 99999

\* C6: at most 33 sets are held, in tens, every ticket and every drawing in
\* range.
C6_HeldTickets ==
    LET R == renban_tickets[self]
        B == bara_tickets[self]
    IN  /\ Len(R) + Len(B) <= 330
        /\ Len(R) % 10 = 0
        /\ Len(B) % 10 = 0
        /\ \A k \in 1 .. Len(R) : InRange(R[k])
        /\ \A k \in 1 .. Len(B) : InRange(B[k])
        /\ winning_number[self] # None =>
               /\ InRange(Val(winning_number[self]))
               /\ bonus_digit[self] # None
               /\ Val(bonus_digit[self]) \in 0 .. 9

\* 33 sets held and a drawing made
C6_Witness ==
    /\ Len(renban_tickets[self]) + Len(bara_tickets[self]) = 330
    /\ winning_number[self] # None

\* C4: purchase_tickets(r, b) raises exactly when r < 0, b < 0 or r + b > 33,
\* and a call that raises changes no field of the simulator.
C4_PurchaseAllOrNothing ==
    [][ret'.op = "purchase_tickets" =>
          LET r == ret'.args[1]
              b == ret'.args[2]
          IN  /\ ret'.raised <=> (r < 0 \/ b < 0 \/ r + b > 33)
              /\ (r = 20 /\ b = 13) => ~ret'.raised
              /\ (r = 20 /\ b = 14) => ret'.raised
              /\ ret'.raised => UNCHANGED fields]_vars

\* purchase_tickets(20, 14) rejected with 330 tickets held and a drawing made
C4_Witness ==
    /\ ret.op = "purchase_tickets"
    /\ ret.args = <<20, 14>>
    /\ ret.raised
    /\ Len(renban_tickets[self]) = 200
    /\ Len(bara_tickets[self]) = 130
    /\ winning_number[self] # None

\* C5: before any drawing check_prize returns none/0 for every ticket and
\* check_all_prizes returns all counts 0 and total payout 0 without raising.
C5_NoDrawingNoPrize ==
    winning_number[self] = None =>
        /\ ret.op = "check_prize" =>
               ~ret.raised /\ ret.value = Prize("none", 0)
        /\ ret.op = "check_all_prizes" =>
               /\ ~ret.raised
               /\ \A t \in Tiers : /\ ret.value.renban_results[t] = 0
                                   /\ ret.value.bara_results[t] = 0
               /\ ret.value.renban_total_prize = 0
               /\ ret.value.bara_total_prize = 0
               /\ ret.value.total_prize = 0

\* check_all_prizes called with tickets of both kinds and no drawing
C5_Witness ==
    /\ winning_number[self] = None
    /\ ret.op = "check_all_prizes"
    /\ Len(renban_tickets[self]) > 0
    /\ Len(bara_tickets[self]) > 0

\* C7: check_all_prizes returns, per strategy, the count of tickets check_prize
\* puts in each tier and the sum of their payouts; total_sets, total_cost,
\* total_prize and profit follow; the call changes no ticket and no drawing.
C7_Aggregation ==
    [][ret'.op = "check_all_prizes" =>
          LET v == ret'.value
              R == renban_tickets[self]
              B == bara_tickets[self]
          IN  /\ UNCHANGED fields
              /\ \A t \in Tiers : /\ v.renban_results[t] = CountTier(self, R, t)
                                  /\ v.bara_results[t] = CountTier(self, B, t)
              /\ v.renban_total_prize = SumPayout(self, R, 1)
              /\ v.bara_total_prize = SumPayout(self, B, 1)
              /\ v.total_sets = (Len(R) \div 10) + (Len(B) \div 10)
              /\ v.total_cost * 100 = v.total_sets * 3000
              /\ v.total_prize = v.renban_total_prize + v.bara_total_prize
              /\ v.profit = v.total_prize - v.total_cost]_vars

\* both strategies held and both paid after a drawing
C7_Witness ==
    /\ ret.op = "check_all_prizes"
    /\ winning_number[self] # None
    /\ ret.value.renban_sets > 0
    /\ ret.value.bara_sets > 0
    /\ ret.value.renban_total_prize > 0
    /\ ret.value.bara_total_prize > ret.value.renban_total_prize

\* some ticket of the set wins one of the prizes 1st .. 6th
HasSixthOrBetter(i, set) ==
    \E k \in 1 .. Len(set) :
        check_prize(i, set[k]).name \in Tiers \ {"7th"}

\* C10: once a drawing exists every held set of ten has a ticket that wins
\* the 6th prize or better, so check_all_prizes reports total_prize >=
\* total_cost; a negative profit is reported only with tickets held and no
\* drawing.
C10_EverySetPays ==
    /\ winning_number[self] # None =>
           \A set \in Blocks(renban_tickets[self]) \cup Blocks(bara_tickets[self]) :
               HasSixthOrBetter(self, set)
    /\ (ret.op = "check_all_prizes" /\ winning_number[self] # None) =>
           /\ ret.value.total_prize >= ret.value.total_cost
           /\ ret.value.profit >= 0
    /\ (ret.op = "check_all_prizes" /\ ret.value.profit < 0) =>
           /\ winning_number[self] = None
           /\ Len(renban_tickets[self]) + Len(bara_tickets[self]) > 0

\* three sets held, a drawing made, and the reported profit not negative
C10_Witness ==
    /\ ret.op = "check_all_prizes"
    /\ winning_number[self] # None
    /\ ret.value.total_sets = 3
    /\ ret.value.profit >= 0

\* C2: two instances built with the same seed and given the same calls hold the
\* same tickets and the same drawing and report the same results.
C2_SameSeedSameRun ==
    \A i, j \in alive :
        (seed[i] = seed[j] /\ calls[i] = calls[j]) =>
            /\ renban_tickets[i] = renban_tickets[j]
            /\ bara_tickets[i] = bara_tickets[j]
            /\ winning_number[i] = winning_number[j]
            /\ bonus_digit[i] = bonus_digit[j]
            /\ check_all_prizes(i) = check_all_prizes(j)

====
